---- MODULE Spec2Model ----
(***************************************************************************)
(* A model of electricity_outage_checker: the DTEK client (client.py) and  *)
(* the domain model it builds (models.py).                                 *)
(*                                                                         *)
(* Text is modelled as a sequence of one-character strings.  Python        *)
(* offsets are kept 0-based as in the source; html[k] of the source is     *)
(* html[k + 1] here.  An optional value (x | None) is the empty sequence   *)
(* for None and <<x>> otherwise.                                           *)
(***************************************************************************)
EXTENDS Integers, Sequences, FiniteSets, TLC

VARIABLES
    html,        \* argument of _extract_js_object
    extracted,   \* its outcome: not called yet, a text, or an error
    js_code,     \* argument of _parse_js_object
    parsed,      \* its outcome: not called yet, a value, or an error
    server,      \* what the provider serves: the page and the AJAX response
    query,       \* the address looked up
    group_result,     \* outcome of fetch_address_group on a new client
    schedule_result,  \* outcome of get_schedule_for_address on a new client
    dtek,             \* the fields of the DTEKClient object in use
    open_connections, \* httpx.Client objects created and not closed
    scope,            \* "with" inside a with block on the object, else "none"
    raising,          \* an error is propagating out of the with block
    session,          \* history: the successful GETs since creation or close
    last_call,             \* history: the last call on the object and what it did
    calls,            \* number of public operations called so far
    stale_tokens,     \* history: the CSRF tokens that a close has cleared
    day_hours,        \* the hours of a DaySchedule
    periods,          \* outcome of get_outage_periods on it
    address_str,      \* argument of Address.from_string
    from_string,      \* its outcome
    config_file,      \* the config store: no file, or the config saved
    cli_run           \* history: the last command run and what it did

extractVars == <<html, extracted>>

parseVars == <<js_code, parsed>>

scheduleVars == <<server, query, group_result, schedule_result>>

sessionVars ==
    <<dtek, open_connections, scope, raising, session, last_call, calls,
      stale_tokens>>

periodVars == <<day_hours, periods>>

addressVars == <<address_str, from_string>>

modelsVars == <<day_hours, periods, address_str, from_string>>

cliVars == <<config_file, cli_run>>

vars == <<html, extracted, js_code, parsed, server, query, group_result,
          schedule_result, dtek, open_connections, scope, raising, session,
          last_call, calls, stale_tokens, day_hours, periods, address_str,
          from_string, config_file, cli_run>>

-----------------------------------------------------------------------------
(* Outcomes of a call.                                                     *)

NotCalled == [kind |-> "not_called"]

\* raise DTEKClientError(msg)
ClientError(msg) == [kind |-> "error", exc |-> "DTEKClientError", msg |-> msg]

Returned(v) == [kind |-> "value", value |-> v]

Min(S) == CHOOSE x \in S : \A y \in S : x <= y

-----------------------------------------------------------------------------
(* _extract_js_object (client.py 106-167)                                  *)

\* The characters of the modelled pages.  "n" stands for the variable name
\* searched for, "a" for any character that means nothing to the scan.
Quote == "\""

Backslash == "\\"

Whitespace == {" "}

VarName == <<"n">>

HtmlAlphabet == {"n", " ", "=", "{", "}", Quote, Backslash, "a"}

BodyAlphabet == {"{", "}", Quote, Backslash}

\* Longest page drawn from the whole alphabet.
MaxHtmlLen == 4

\* Longest text drawn from BodyAlphabet after an assignment "n=".
MaxBodyLen == 7

SeqsUpTo(S, n) == UNION {[1..k -> S] : k \in 0..n}

HtmlInputs ==
    SeqsUpTo(HtmlAlphabet, MaxHtmlLen)
        \cup {VarName \o <<"=">> \o b : b \in SeqsUpTo(BodyAlphabet, MaxBodyLen)}
        \cup {VarName \o <<" ", "=", " ">> \o b \o <<"a">> :
                 b \in SeqsUpTo(BodyAlphabet, MaxBodyLen)}

\* \s* from offset k: the offset of the first character at or after k that
\* is not whitespace (len(html) if there is none).
RECURSIVE SkipSpace(_, _)
SkipSpace(text, k) ==
    IF k < Len(text) /\ text[k + 1] \in Whitespace
    THEN SkipSpace(text, k + 1)
    ELSE k

\* The pattern  re.escape(var_name) \s* = \s*  tried at offset p: the end of
\* the match, or -1.
MatchEndAt(text, var_name, p) ==
    IF p + Len(var_name) <= Len(text)
          /\ SubSeq(text, p + 1, p + Len(var_name)) = var_name
    THEN LET q == SkipSpace(text, p + Len(var_name))
         IN  IF q < Len(text) /\ text[q + 1] = "="
             THEN SkipSpace(text, q + 1)
             ELSE -1
    ELSE -1

\* pattern.search(html): match.end() of the leftmost match, or -1.
PatternSearch(text, var_name) ==
    LET hits == {p \in 0..Len(text) : MatchEndAt(text, var_name, p) # -1}
    IN  IF hits = {} THEN -1 ELSE MatchEndAt(text, var_name, Min(hits))

\* A scan that counts the braces of string literals too.
RECURSIVE ScanBracesCountingStrings(_, _, _, _, _, _)
ScanBracesCountingStrings(text, start, i, depth, in_string, escape_next) ==
    IF start + i >= Len(text)
    THEN [depth |-> depth, end |-> start]
    ELSE LET char == text[start + i + 1]
         IN  IF escape_next
             THEN ScanBracesCountingStrings(text, start, i + 1, depth, in_string, FALSE)
             ELSE IF char = Backslash
             THEN ScanBracesCountingStrings(text, start, i + 1, depth, in_string, TRUE)
             ELSE IF char = "{"
             THEN ScanBracesCountingStrings(text, start, i + 1, depth + 1, in_string, FALSE)
             ELSE IF char = "}"
             THEN IF depth - 1 = 0
                  THEN [depth |-> 0, end |-> start + i + 1]
                  ELSE ScanBracesCountingStrings(text, start, i + 1, depth - 1, in_string, FALSE)
             ELSE ScanBracesCountingStrings(text, start, i + 1, depth, in_string, FALSE)

\* The loop  for i, char in enumerate(html[start:])  from iteration i on,
\* with the loop's variables as they stand; yields depth and end as they
\* are when the loop is left.
RECURSIVE ScanBraces(_, _, _, _, _, _)
ScanBraces(text, start, i, depth, in_string, escape_next) ==
    IF start + i >= Len(text)
    THEN [depth |-> depth, end |-> start]
    ELSE LET char == text[start + i + 1]
         IN  IF escape_next
             THEN ScanBraces(text, start, i + 1, depth, in_string, FALSE)
             ELSE IF char = Backslash
             THEN ScanBraces(text, start, i + 1, depth, in_string, TRUE)
             ELSE IF char = Quote
             THEN ScanBraces(text, start, i + 1, depth, ~in_string, FALSE)
             ELSE IF in_string
             THEN ScanBraces(text, start, i + 1, depth, in_string, FALSE)
             ELSE IF char = "{"
             THEN ScanBraces(text, start, i + 1, depth + 1, in_string, FALSE)
             ELSE IF char = "}"
             THEN IF depth - 1 = 0
                  THEN [depth |-> 0, end |-> start + i + 1]
                  ELSE ScanBraces(text, start, i + 1, depth - 1, in_string, FALSE)
             ELSE ScanBraces(text, start, i + 1, depth, in_string, FALSE)

CouldNotFind == "Could not find {var_name} in page"

ExpectedObject == "Expected object after {var_name}"

UnbalancedBraces == "Unbalanced braces in {var_name}"

\* An extraction that returns what it has scanned when the braces never
\* balance.
ExtractJsObjectNoBalanceCheck(text, var_name) ==
    LET start == PatternSearch(text, var_name)
    IN  IF start = -1
        THEN ClientError(CouldNotFind)
        ELSE IF start >= Len(text) \/ text[start + 1] # "{"
        THEN ClientError(ExpectedObject)
        ELSE LET scan == ScanBraces(text, start, 0, 0, FALSE, FALSE)
             IN  Returned(SubSeq(text, start + 1,
                                 IF scan.depth # 0 THEN Len(text) ELSE scan.end))

ExtractJsObject(text, var_name) ==
    LET start == PatternSearch(text, var_name)
    IN  IF start = -1
        THEN ClientError(CouldNotFind)
        ELSE IF start >= Len(text) \/ text[start + 1] # "{"
        THEN ClientError(ExpectedObject)
        ELSE LET scan == ScanBraces(text, start, 0, 0, FALSE, FALSE)
             IN  IF scan.depth # 0
                 THEN ClientError(UnbalancedBraces)
                 ELSE Returned(SubSeq(text, start + 1, scan.end))

-----------------------------------------------------------------------------
(* What the scan of _extract_js_object counts, stated position by position *)
(* instead of as a loop.  Positions are 1-based; the scan starts at        *)
(* position from.                                                          *)

\* The number of backslashes that stand immediately before position k,
\* not looking before position from.
BackslashRun(text, from, k) ==
    LET runs == {r \in 0..(k - from) :
                    \A j \in (k - r)..(k - 1) : text[j] = Backslash}
    IN  CHOOSE r \in runs : \A x \in runs : x <= r

\* The character at k follows a backslash that is not itself escaped.
Escaped(text, from, k) == BackslashRun(text, from, k) % 2 = 1

\* A quote that opens or closes a string literal.
Delimiter(text, from, k) == text[k] = Quote /\ ~Escaped(text, from, k)

\* Position k lies inside a string literal.
InsideString(text, from, k) ==
    Cardinality({j \in from..(k - 1) : Delimiter(text, from, j)}) % 2 = 1

\* The brace b stands at k and is neither escaped nor inside a string.
CountedBrace(text, from, k, b) ==
    /\ text[k] = b
    /\ ~Escaped(text, from, k)
    /\ ~InsideString(text, from, k)

DepthAfter(text, from, k) ==
    Cardinality({j \in from..k : CountedBrace(text, from, j, "{")})
        - Cardinality({j \in from..k : CountedBrace(text, from, j, "}")})

\* The closing braces that bring the depth back to zero.
ClosingPositions(text, from) ==
    {k \in from..Len(text) :
        CountedBrace(text, from, k, "}") /\ DepthAfter(text, from, k) = 0}

\* The same with strings read as a JavaScript lexer reads them: a backslash
\* escapes the next character inside a string literal only, and every brace
\* outside a string literal is counted.
RECURSIVE LexicalClose(_, _, _, _)
LexicalClose(text, k, depth, in_string) ==
    IF k > Len(text) THEN 0
    ELSE IF in_string
    THEN IF text[k] = Backslash THEN LexicalClose(text, k + 2, depth, TRUE)
         ELSE IF text[k] = Quote THEN LexicalClose(text, k + 1, depth, FALSE)
         ELSE LexicalClose(text, k + 1, depth, TRUE)
    ELSE IF text[k] = Quote THEN LexicalClose(text, k + 1, depth, TRUE)
    ELSE IF text[k] = "{" THEN LexicalClose(text, k + 1, depth + 1, FALSE)
    ELSE IF text[k] = "}"
    THEN IF depth = 1 THEN k ELSE LexicalClose(text, k + 1, depth - 1, FALSE)
    ELSE LexicalClose(text, k + 1, depth, FALSE)

\* The assignment  var_name \s* =  stands somewhere in the text.
HasAssignment(text, var_name) ==
    \E p \in 1..Len(text) : \E q \in p..Len(text) :
        /\ q >= p + Len(var_name)
        /\ SubSeq(text, p, p + Len(var_name) - 1) = var_name
        /\ \A j \in (p + Len(var_name))..(q - 1) : text[j] \in Whitespace
        /\ text[q] = "="

\* Position (1-based) of the character that follows the first assignment.
AfterAssignment(text, var_name) == PatternSearch(text, var_name) + 1

ObjectFollows(text, var_name) ==
    /\ HasAssignment(text, var_name)
    /\ AfterAssignment(text, var_name) <= Len(text)
    /\ text[AfterAssignment(text, var_name)] = "{"

\* C1 as stated: when the first assignment is followed by "{", the result is
\* the text from that brace to the closing brace matching it, where only the
\* braces inside double-quoted strings are left uncounted.
C1_MatchingBraceLexical ==
    (extracted # NotCalled /\ ObjectFollows(html, VarName)
        /\ LexicalClose(html, AfterAssignment(html, VarName), 0, FALSE) # 0)
    => extracted = Returned(SubSeq(html, AfterAssignment(html, VarName),
                      LexicalClose(html, AfterAssignment(html, VarName), 0, FALSE)))

\* C1 amended: when the first assignment is followed by "{", the result is
\* the text from that brace to the first closing brace that brings the depth
\* back to zero, where a brace is counted unless it lies inside a
\* double-quoted string or follows an unescaped backslash (inside a string
\* or outside one), and a quote delimits a string unless it follows an
\* unescaped backslash.
C1_MatchingBraceAsScanned ==
    (extracted # NotCalled /\ ObjectFollows(html, VarName)
        /\ ClosingPositions(html, AfterAssignment(html, VarName)) # {})
    => extracted = Returned(SubSeq(html, AfterAssignment(html, VarName),
                      Min(ClosingPositions(html, AfterAssignment(html, VarName)))))

\* A nested object with a closing brace inside a string literal, returned
\* whole although text follows it.
C1_Witness ==
    /\ extracted.kind = "value"
    /\ LET from == AfterAssignment(html, VarName)
           last == from + Len(extracted.value) - 1
       IN  /\ last < Len(html)
           /\ \E k \in from..last :
                 html[k] = "}" /\ InsideString(html, from, k)
           /\ \E k \in from..last : DepthAfter(html, from, k) = 2

ExtractIdle == html = <<>> /\ extracted = NotCalled

ParseIdle == js_code = <<>> /\ parsed = NotCalled

\* No call has been made on the object yet.
NoCall ==
    [op |-> "none", requests |-> <<>>, result |-> NotCalled, post |-> NotCalled,
     gets_before |-> 0, page_before |-> <<>>, was_open |-> FALSE,
     after_error |-> FALSE]

\* No GET has succeeded since the object was created or closed.
NoSession == [gets_ok |-> 0, page |-> <<>>]

SessionIdle ==
    /\ dtek = [client |-> <<>>, csrf_token |-> <<>>, page_html |-> <<>>]
    /\ open_connections = 0
    /\ scope = "none"
    /\ raising = FALSE
    /\ session = NoSession
    /\ last_call = NoCall
    /\ calls = 0
    /\ stale_tokens = {}

\* No command has run yet.
NoRun ==
    [command |-> "none", config_before |-> <<>>, events |-> <<>>, exit_code |-> 0,
     uncaught |-> ""]

\* There is no config file.
CliIdle == config_file = <<>> /\ cli_run = NoRun

PeriodsIdle == day_hours = <<>> /\ periods = NotCalled

AddressIdle == address_str = <<>> /\ from_string = NotCalled

ScheduleIdle ==
    /\ server = <<>>
    /\ query = <<>>
    /\ group_result = NotCalled
    /\ schedule_result = NotCalled

InitExtract ==
    /\ html \in HtmlInputs
    /\ extracted = NotCalled
    /\ ParseIdle
    /\ ScheduleIdle
    /\ SessionIdle
    /\ CliIdle
    /\ PeriodsIdle
    /\ AddressIdle

CallExtract ==
    /\ extracted = NotCalled
    /\ extracted' = ExtractJsObject(html, VarName)
    /\ UNCHANGED <<html, parseVars, scheduleVars, sessionVars, modelsVars, cliVars>>

NextExtract == CallExtract

SpecExtract == InitExtract /\ [][NextExtract]_vars

-----------------------------------------------------------------------------
(* _parse_js_object (client.py 169-184)                                    *)

\* str.replace(old, new): every occurrence of old, found from the left and
\* not overlapping an earlier one, is replaced by new.
RECURSIVE StrReplace(_, _, _)
StrReplace(text, old, new) ==
    IF Len(text) < Len(old) THEN text
    ELSE IF SubSeq(text, 1, Len(old)) = old
    THEN new \o StrReplace(SubSeq(text, Len(old) + 1, Len(text)), old, new)
    ELSE <<text[1]>> \o StrReplace(Tail(text), old, new)

EscapedSlash == <<Backslash, "/">>

\* A cleaning that takes the slash away with the backslash.
CleanedDroppingSlash(code) == StrReplace(code, EscapedSlash, <<>>)

\* cleaned = js_code.replace("\\/", "/")
Cleaned(code) == StrReplace(code, EscapedSlash, <<"/">>)

\* The Python values json.loads builds from the modelled texts.
PyStr(chars) == [type |-> "str", chars |-> chars]

PyNaN == [type |-> "float", repr |-> "nan"]

\* A dict as the sequence of its (key, value) pairs.
PyDict(items) == [type |-> "dict", items |-> items]

NaNLiteral == <<"N", "a", "N">>

\* The characters json's string scanner accepts after a backslash, among the
\* characters modelled; each stands for itself.
JsonEscapes == {Quote, Backslash, "/"}

JsonFailure == [ok |-> FALSE]

\* json.decoder.scanstring from the character after the opening quote: the
\* characters of the string and the position after the closing quote.
RECURSIVE ScanString(_, _, _)
ScanString(text, k, chars) ==
    IF k > Len(text) THEN JsonFailure
    ELSE IF text[k] = Quote THEN [ok |-> TRUE, value |-> PyStr(chars), next |-> k + 1]
    ELSE IF text[k] = Backslash
    THEN IF k + 1 <= Len(text) /\ text[k + 1] \in JsonEscapes
         THEN ScanString(text, k + 2, Append(chars, text[k + 1]))
         ELSE JsonFailure
    ELSE ScanString(text, k + 1, Append(chars, text[k]))

\* json.scanner's scan_once at position k, for the values the modelled texts
\* can hold: a string, an object of at most one member, and the constant NaN
\* that json.loads accepts by default.
RECURSIVE ScanOnce(_, _)
ScanOnce(text, k) ==
    IF k > Len(text) THEN JsonFailure
    ELSE IF text[k] = Quote THEN ScanString(text, k + 1, <<>>)
    ELSE IF text[k] = "{"
    THEN IF k + 1 <= Len(text) /\ text[k + 1] = "}"
         THEN [ok |-> TRUE, value |-> PyDict(<<>>), next |-> k + 2]
         ELSE IF k + 1 <= Len(text) /\ text[k + 1] = Quote
         THEN LET key == ScanString(text, k + 2, <<>>)
              IN  IF key.ok /\ key.next <= Len(text) /\ text[key.next] = ":"
                  THEN LET val == ScanOnce(text, key.next + 1)
                       IN  IF val.ok /\ val.next <= Len(text) /\ text[val.next] = "}"
                           THEN [ok |-> TRUE,
                                 value |-> PyDict(<<<<key.value, val.value>>>>),
                                 next |-> val.next + 1]
                           ELSE JsonFailure
                  ELSE JsonFailure
         ELSE JsonFailure
    ELSE IF k + 2 <= Len(text) /\ SubSeq(text, k, k + 2) = NaNLiteral
    THEN [ok |-> TRUE, value |-> PyNaN, next |-> k + 3]
    ELSE JsonFailure

\* json.loads(text): the value, or JSONDecodeError when no value is read or
\* text follows it.
JsonLoads(text) ==
    LET got == ScanOnce(text, 1)
    IN  IF got.ok /\ got.next = Len(text) + 1
        THEN [ok |-> TRUE, value |-> got.value]
        ELSE JsonFailure

FailedToParse == "Failed to parse JavaScript object: {e}"

ParseJsObject(code) ==
    LET loaded == JsonLoads(Cleaned(code))
    IN  IF loaded.ok THEN Returned(loaded.value) ELSE ClientError(FailedToParse)

\* The texts handed to _parse_js_object: up to MaxJsTokens tokens, alone or
\* as the value of the one member of an object.
JsTokens == {<<Quote>>, <<Backslash>>, <<"/">>, <<"x">>, NaNLiteral}

MaxJsTokens == 6

RECURSIVE Flatten(_)
Flatten(tokens) ==
    IF tokens = <<>> THEN <<>> ELSE Head(tokens) \o Flatten(Tail(tokens))

JsBodies == {Flatten(t) : t \in SeqsUpTo(JsTokens, MaxJsTokens)}

\* {"x": body}
AsMember(body) == <<"{", Quote, "x", Quote, ":">> \o body \o <<"}">>

JsInputs == JsBodies \cup {AsMember(b) : b \in JsBodies}

-----------------------------------------------------------------------------
(* JSON texts and their values, stated on the text as a whole.             *)

\* The characters of text at the positions keep, in their order.
CharsAt(text, keep) ==
    LET nth(i) == CHOOSE k \in keep : Cardinality({j \in keep : j < k}) = i - 1
    IN  [i \in 1..Cardinality(keep) |-> text[nth(i)]]

\* The text without the backslashes that stand before a slash.
SlashesUnescaped(text) ==
    CharsAt(text, {k \in 1..Len(text) :
                      ~(text[k] = Backslash /\ k < Len(text) /\ text[k + 1] = "/")})

\* A JSON string: quoted, every quote inside it escaped, every escape one of
\* JSON's, the closing quote not escaped.
IsStringLiteral(text) ==
    /\ Len(text) >= 2
    /\ text[1] = Quote
    /\ text[Len(text)] = Quote
    /\ ~Escaped(text, 2, Len(text))
    /\ \A k \in 2..(Len(text) - 1) :
          /\ text[k] = Quote => Escaped(text, 2, k)
          /\ Escaped(text, 2, k) => text[k] \in {Quote, Backslash, "/"}

\* What a JSON string denotes: its characters without the escaping
\* backslashes.
StringDenoted(text) ==
    CharsAt(text, {k \in 2..(Len(text) - 1) :
                      ~(text[k] = Backslash /\ ~Escaped(text, 2, k))})

\* text is a value of the JSON grammar, extended by the bare constants given.
RECURSIVE IsJsonValue(_, _)
IsJsonValue(text, constants) ==
    \/ IsStringLiteral(text)
    \/ text \in constants
    \/ text = <<"{", "}">>
    \/ /\ Len(text) >= 2
       /\ text[1] = "{"
       /\ text[Len(text)] = "}"
       /\ \E i \in 2..(Len(text) - 1) :
             /\ text[i] = ":"
             /\ IsStringLiteral(SubSeq(text, 2, i - 1))
             /\ IsJsonValue(SubSeq(text, i + 1, Len(text) - 1), constants)

RECURSIVE JsonDenoted(_)
JsonDenoted(text) ==
    IF IsStringLiteral(text) THEN PyStr(StringDenoted(text))
    ELSE IF text = NaNLiteral THEN PyNaN
    ELSE IF text = <<"{", "}">> THEN PyDict(<<>>)
    ELSE LET i == CHOOSE i \in 2..(Len(text) - 1) :
                      text[i] = ":" /\ IsStringLiteral(SubSeq(text, 2, i - 1))
         IN  PyDict(<<<<PyStr(StringDenoted(SubSeq(text, 2, i - 1))),
                        JsonDenoted(SubSeq(text, i + 1, Len(text) - 1))>>>>)

\* A string value written as the provider writes it: x's and slashes, each
\* slash behind a backslash and no other backslash.
WrittenWithEscapedSlashes(text) ==
    \A k \in 1..Len(text) :
        /\ text[k] \in {"x", Backslash, "/"}
        /\ text[k] = Backslash => (k < Len(text) /\ text[k + 1] = "/")
        /\ text[k] = "/" => (k > 1 /\ text[k - 1] = Backslash)

\* {"x":"..."} around such a value.
IsEscapedStringMember(code) ==
    /\ Len(code) >= Len(AsMember(<<Quote, Quote>>))
    /\ code = AsMember(<<Quote>> \o SubSeq(code, 7, Len(code) - 2) \o <<Quote>>)
    /\ WrittenWithEscapedSlashes(SubSeq(code, 7, Len(code) - 2))

\* The outcome the claim gives for code when the bare constants given are
\* taken as values.
ParseOutcome(code, constants) ==
    IF IsJsonValue(SlashesUnescaped(code), constants)
    THEN Returned(JsonDenoted(SlashesUnescaped(code)))
    ELSE ClientError(FailedToParse)

\* A string field written with escaped slashes is read with plain ones.
EscapedSlashesRead ==
    IsEscapedStringMember(js_code) =>
        LET written == SubSeq(js_code, 7, Len(js_code) - 2)
            plain == CharsAt(written, {k \in 1..Len(written) : written[k] # Backslash})
        IN  parsed = Returned(PyDict(<<<<PyStr(<<"x">>), PyStr(plain)>>>>))

\* C3 as stated: every escaped slash is unescaped, the text is then read as
\* strict JSON, and a text that is not valid JSON fails with a ParseError.
C3_StrictJson ==
    parsed # NotCalled =>
        /\ parsed = ParseOutcome(js_code, {})
        /\ EscapedSlashesRead

\* C3 amended: every escaped slash is unescaped and the text is then read as
\* JSON extended by the bare constants json.loads accepts (NaN, and likewise
\* Infinity and -Infinity); a text that is not valid in that grammar fails
\* with a ParseError, and a string field written http:\/\/x reads http://x.
C3_UnescapedThenLoaded ==
    parsed # NotCalled =>
        /\ parsed = ParseOutcome(js_code, {NaNLiteral})
        /\ EscapedSlashesRead

\* {"x":"\/\/"} has been parsed to a dict whose x is //.
C3_Witness ==
    /\ js_code = AsMember(<<Quote, Backslash, "/", Backslash, "/", Quote>>)
    /\ parsed = Returned(PyDict(<<<<PyStr(<<"x">>), PyStr(<<"/", "/">>)>>>>))


InitParse ==
    /\ js_code \in JsInputs
    /\ parsed = NotCalled
    /\ ExtractIdle
    /\ ScheduleIdle
    /\ SessionIdle
    /\ CliIdle
    /\ PeriodsIdle
    /\ AddressIdle

CallParse ==
    /\ parsed = NotCalled
    /\ parsed' = ParseJsObject(js_code)
    /\ UNCHANGED <<js_code, extractVars, scheduleVars, sessionVars, modelsVars, cliVars>>

NextParse == CallParse

SpecParse == InitParse /\ [][NextParse]_vars

-----------------------------------------------------------------------------
(* Python values and conversions used by the schedule builder.             *)

\* Another exception than DTEKClientError leaving a call.
Raised(exc) == [kind |-> "error", exc |-> exc]

\* dict.get(key, default); a dict is a function from its keys.
Get(dict, key, default) == IF key \in DOMAIN dict THEN dict[key] ELSE default

EmptyDict == [key \in {} |-> 0]

Digits == <<"0", "1", "2", "3", "4", "5", "6", "7", "8", "9">>

\* str(n) for an int n >= 0.
RECURSIVE DecimalStr(_)
DecimalStr(n) ==
    IF n < 10 THEN <<Digits[n + 1]>>
    ELSE DecimalStr(n \div 10) \o <<Digits[(n % 10) + 1]>>

\* f"{n:02d}" for an int n >= 0.
Format02d(n) == IF n < 10 THEN <<"0">> \o DecimalStr(n) ELSE DecimalStr(n)

\* int(text) succeeds; of the texts modelled, those of decimal digits.
IsIntLiteral(text) ==
    text # <<>> /\ \A k \in 1..Len(text) : \E d \in 1..10 : Digits[d] = text[k]

\* int(text) for such a text.
RECURSIVE ParseInt(_)
ParseInt(text) ==
    IF text = <<>> THEN 0
    ELSE ParseInt(SubSeq(text, 1, Len(text) - 1)) * 10
            + ((CHOOSE d \in 1..10 : Digits[d] = text[Len(text)]) - 1)

-----------------------------------------------------------------------------
(* models.py: PowerStatus, HourStatus, DaySchedule                         *)

\* The values of the members of PowerStatus (models.py 11-17).
PowerStatusValues == {"yes", "no", "maybe", "first", "second", "mfirst", "msecond"}

\* HourStatus(hour, status, time_range)
HourStatus(hour, status, time_range) ==
    [hour |-> hour, status |-> status, time_range |-> time_range]

\* DaySchedule(date, day_name, group, hours)
DaySchedule(date, day_name, group, hours) ==
    [date |-> date, day_name |-> day_name, group |-> group, hours |-> hours]

\* datetime.fromtimestamp(timestamp), for a process whose local time is UTC:
\* the day number since 1970-01-01 and the second of that day.
FromTimestamp(timestamp) ==
    [day |-> timestamp \div 86400, second |-> timestamp % 86400]

\* date.isoweekday(): 1 is Monday; 1970-01-01 was a Thursday.
IsoWeekday(date) == ((date.day + 3) % 7) + 1

\* d1 < d2 on datetimes.
DateBefore(d1, d2) ==
    d1.day < d2.day \/ (d1.day = d2.day /\ d1.second < d2.second)

-----------------------------------------------------------------------------
(* get_schedule_for_address, the part that builds the schedule             *)
(* (client.py 374-411)                                                     *)

FirstHour == 1

LastHour == 24

\* "{hour-1:02d}-{hour:02d}": a fallback with both numbers on two digits.
TimeRangeFallbackPadded(hour_str) ==
    Format02d(ParseInt(hour_str) - 1) \o <<"-">> \o Format02d(ParseInt(hour_str))

\* f"{int(hour_str) - 1:02d}-{hour_str}"
TimeRangeFallback(hour_str) ==
    Format02d(ParseInt(hour_str) - 1) \o <<"-">> \o hour_str

\* A time range that is always the computed one.
TimeRangeIgnoringPreset(time_zones, hour_str) == TimeRangeFallback(hour_str)

\* Lines 390-391: the first element of the preset's entry, or the fallback
\* when there is no entry or it is empty.
TimeRange(time_zones, hour_str) ==
    LET time_info == Get(time_zones, hour_str, <<TimeRangeFallback(hour_str)>>)
    IN  IF time_info # <<>> THEN time_info[1] ELSE TimeRangeFallback(hour_str)

\* A status key that does not default to "yes".
StatusKeyNoDefault(group_schedule, hour_str) == Get(group_schedule, hour_str, "no")

\* Line 386
StatusKey(group_schedule, hour_str) == Get(group_schedule, hour_str, "yes")

\* The loop of lines 385-393 from hour h on, hours being what it has
\* appended so far: the 24 entries, or the ValueError of PowerStatus(key)
\* for a key that is no member's value.
RECURSIVE BuildHours(_, _, _, _)
BuildHours(group_schedule, time_zones, h, hours) ==
    IF h > LastHour THEN Returned(hours)
    ELSE LET hour_str == DecimalStr(h)
             status_key == StatusKey(group_schedule, hour_str)
         IN  IF status_key \notin PowerStatusValues
             THEN Raised("ValueError")
             ELSE BuildHours(group_schedule, time_zones, h + 1,
                      Append(hours, HourStatus(ParseInt(hour_str), status_key,
                                               TimeRange(time_zones, hour_str))))

\* A result left in the order of the data.
SortByDateLeavingOrder(days) == days

\* list.sort(key=lambda d: d.date): a stable sort, here by insertion.
RECURSIVE SortByDate(_)
SortByDate(days) ==
    IF days = <<>> THEN <<>>
    ELSE LET rest == SortByDate(SubSeq(days, 1, Len(days) - 1))
             last == days[Len(days)]
             \* last goes behind every day that is not after it
             at == Cardinality({k \in 1..Len(rest) : ~DateBefore(last.date, rest[k].date)})
         IN  SubSeq(rest, 1, at) \o <<last>> \o SubSeq(rest, at + 1, Len(rest))

\* The loop of lines 377-406 from item k of schedule_data.data on, result
\* being what it has appended so far.  data is the sequence of the dict's
\* items (timestamp_str, groups_data) in the dict's order.
RECURSIVE BuildDays(_, _, _, _, _)
BuildDays(data, preset, group, k, result) ==
    IF k > Len(data) THEN Returned(result)
    ELSE LET timestamp_str == data[k][1]
             groups_data == data[k][2]
         IN  IF ~IsIntLiteral(timestamp_str)
             THEN Raised("ValueError")
             ELSE LET date == FromTimestamp(ParseInt(timestamp_str))
                      group_schedule == Get(groups_data, group, EmptyDict)
                      hours == BuildHours(group_schedule, preset.time_zones, FirstHour, <<>>)
                      day_name == Get(preset.days, DecimalStr(IsoWeekday(date)), <<>>)
                  IN  IF hours.kind = "error" THEN hours
                      ELSE BuildDays(data, preset, group, k + 1,
                               Append(result,
                                      DaySchedule(date, day_name, group, hours.value)))

\* Lines 374-411
BuildSchedule(data, preset, group) ==
    LET built == BuildDays(data, preset, group, 1, <<>>)
    IN  IF built.kind = "error" THEN built ELSE Returned(SortByDate(built.value))

-----------------------------------------------------------------------------
(* DTEKClient: the connection, the page cache and the requests             *)
(* (client.py 33-104)                                                      *)

\* A dict whose order matters is the sequence of its items (key, value).
ItemsGet(items, key, default) ==
    IF \E k \in 1..Len(items) : items[k][1] = key
    THEN items[CHOOSE k \in 1..Len(items) : items[k][1] = key][2]
    ELSE default

ItemsKeys(items) == [k \in 1..Len(items) |-> items[k][1]]

\* The fields of a DTEKClient after __init__ (lines 39-42): _client,
\* _csrf_token and _page_html are None.
NewClient == [client |-> <<>>, csrf_token |-> <<>>, page_html |-> <<>>]

\* _get_client (lines 44-58)
GetClient(self) ==
    IF self.client = <<>> THEN [self EXCEPT !.client = <<"httpx.Client">>] ELSE self

\* What the server makes of a GET: an httpx.HTTPError (transport failure or
\* an error status), or a page.
HttpError == [kind |-> "http_error"]

Page(page) == [kind |-> "ok", page |-> page]

GetRequest(ok) == [method |-> "GET", ok |-> ok]

PostRequest(ok, payload) == [method |-> "POST", ok |-> ok, payload |-> payload]

\* What a call hands back to the action: the client's fields after it, the
\* requests it issued in order, and its outcome.
Outcome(self, requests, result) ==
    [self |-> self, requests |-> requests, result |-> result]

FailedToFetchPage == "Failed to fetch schedule page: {e}"

\* A fetch that never looks at the cached page.
FetchPageAndCsrfUncached(self, get) ==
    IF get.kind = "http_error"
    THEN Outcome(GetClient(self), <<GetRequest(FALSE)>>, ClientError(FailedToFetchPage))
    ELSE Outcome([GetClient(self) EXCEPT
                     !.page_html = <<get.page>>,
                     !.csrf_token = IF get.page.csrf # <<>> THEN get.page.csrf ELSE @],
                 <<GetRequest(TRUE)>>,
                 Returned(get.page))

\* A fetch that tries once more when the GET fails.
FetchPageAndCsrfRetrying(self, get) ==
    IF self.page_html # <<>>
    THEN Outcome(self, <<>>, Returned(self.page_html[1]))
    ELSE IF get.kind = "http_error"
    THEN Outcome(GetClient(self), <<GetRequest(FALSE), GetRequest(FALSE)>>,
                 ClientError(FailedToFetchPage))
    ELSE Outcome([GetClient(self) EXCEPT
                     !.page_html = <<get.page>>,
                     !.csrf_token = IF get.page.csrf # <<>> THEN get.page.csrf ELSE @],
                 <<GetRequest(TRUE)>>,
                 Returned(get.page))

\* _fetch_page_and_csrf (lines 60-88).  page.csrf is group(1) of the match
\* of CSRF_PATTERN in the page, or nothing when the pattern does not match.
FetchPageAndCsrf(self, get) ==
    IF self.page_html # <<>>
    THEN Outcome(self, <<>>, Returned(self.page_html[1]))
    ELSE IF get.kind = "http_error"
    THEN Outcome(GetClient(self), <<GetRequest(FALSE)>>, ClientError(FailedToFetchPage))
    ELSE Outcome([GetClient(self) EXCEPT
                     !.page_html = <<get.page>>,
                     !.csrf_token = IF get.page.csrf # <<>> THEN get.page.csrf ELSE @],
                 <<GetRequest(TRUE)>>,
                 Returned(get.page))

\* A close that keeps the CSRF token.
CloseKeepingToken(self) == [self EXCEPT !.client = <<>>, !.page_html = <<>>]

\* A close that keeps the cached page.
CloseKeepingPage(self) == [self EXCEPT !.client = <<>>, !.csrf_token = <<>>]

\* close (lines 90-96): the fields after it.
Close(self) == [client |-> <<>>, csrf_token |-> <<>>, page_html |-> <<>>]

\* self._client.close() is called (lines 92-93).
ClosesConnection(self) == self.client # <<>>

-----------------------------------------------------------------------------
(* fetch_schedule_page (client.py 186-222)                                 *)

StreetsName == "DisconSchedule.streets"

PresetName == "DisconSchedule.preset"

FactName == "DisconSchedule.fact"

\* _parse_js_object(_extract_js_object(html, name)) on a page: a page holds,
\* for each of the three names, what extraction and parsing make of it: the
\* parsed dict, or the error of the first of the two that fails.
ExtractAndParse(page, name) == page.objects[name]

\* SchedulePreset(...) of lines 204-210
SchedulePreset(preset_raw) ==
    [days |-> Get(preset_raw, "days", EmptyDict),
     days_mini |-> Get(preset_raw, "days_mini", EmptyDict),
     schedule_names |-> Get(preset_raw, "sch_names", EmptyDict),
     time_zones |-> Get(preset_raw, "time_zone", EmptyDict),
     time_types |-> Get(preset_raw, "time_type", EmptyDict)]

\* ScheduleData(...) of lines 216-220
ScheduleData(fact_raw) ==
    [data |-> Get(fact_raw, "data", <<>>),
     update_time |-> Get(fact_raw, "update", <<>>),
     today_timestamp |-> Get(fact_raw, "today", 0)]

FetchSchedulePage(self, get) ==
    LET fetched == FetchPageAndCsrf(self, get)
    IN  IF fetched.result.kind = "error" THEN fetched
        ELSE LET page == fetched.result.value
                 streets == ExtractAndParse(page, StreetsName)
                 preset_raw == ExtractAndParse(page, PresetName)
                 fact_raw == ExtractAndParse(page, FactName)
             IN  Outcome(fetched.self, fetched.requests,
                     IF streets.kind = "error" THEN streets
                     ELSE IF preset_raw.kind = "error" THEN preset_raw
                     ELSE IF fact_raw.kind = "error" THEN fact_raw
                     ELSE Returned([streets |-> streets.value,
                                    preset |-> SchedulePreset(preset_raw.value),
                                    schedule |-> ScheduleData(fact_raw.value)]))

-----------------------------------------------------------------------------
(* fetch_address_group and fetch_houses (client.py 224-349)                *)

\* What the server makes of a POST: an httpx.HTTPError, a body that is not
\* JSON, or a JSON object.
NotJson == [kind |-> "not_json"]

Json(body) == [kind |-> "json", body |-> body]

\* The JSON values of the "result" field that Python takes as false.
FalsyValues == {"false", "null", "0"}

\* not value, for the values modelled; "None" is what get gives for a
\* missing key.
Not(value) == value \in FalsyValues \cup {"None"}

\* Lines 246-259: the form fields, the CSRF token among them when the
\* client holds one.
Payload(self, city, street, house_num) ==
    [method |-> "getHomeNum",
     csrf |-> self.csrf_token,
     data |-> <<<<"city", city>>, <<"street", street>>, <<"house_num", house_num>>>>]

FailedToFetchGroup == "Failed to fetch address group: {e}"

FailedToFetchHouses == "Failed to fetch houses: {e}"

InvalidJson == "Invalid JSON response: {e}"

\* data.get("data", {}).get(house): <<entry>>, or <<>> for None.
HouseData(data, house) ==
    LET items == Get(data, "data", <<>>)
    IN  IF \E k \in 1..Len(items) : items[k][1] = house
        THEN <<ItemsGet(items, house, EmptyDict)>>
        ELSE <<>>

\* A reading of the response that takes the last reason code.
GroupFromResponseLast(data, house) ==
    IF Not(Get(data, "result", "None")) THEN Returned(<<>>)
    ELSE LET house_data == HouseData(data, house)
         IN  IF house_data = <<>> THEN Returned(<<>>)
             ELSE LET groups == Get(house_data[1], "sub_type_reason", <<>>)
                  IN  IF groups # <<>> THEN Returned(<<groups[Len(groups)]>>)
                      ELSE Returned(<<>>)

\* Lines 279-292: None (<<>>), or the first reason code of the house's
\* entry.
GroupFromResponse(data, house) ==
    IF Not(Get(data, "result", "None")) THEN Returned(<<>>)
    ELSE LET house_data == HouseData(data, house)
         IN  IF house_data = <<>> THEN Returned(<<>>)
             ELSE LET groups == Get(house_data[1], "sub_type_reason", <<>>)
                  IN  IF groups # <<>> THEN Returned(<<groups[1]>>)
                      ELSE Returned(<<>>)

FetchAddressGroup(self, get, post, city, street, house) ==
    LET fetched == FetchPageAndCsrf(self, get)
    IN  IF fetched.result.kind = "error" THEN fetched
        ELSE LET client == GetClient(fetched.self)
                 payload == Payload(client, city, street, house)
             IN  IF post.kind = "http_error"
                 THEN Outcome(client, fetched.requests \o <<PostRequest(FALSE, payload)>>,
                              ClientError(FailedToFetchGroup))
                 ELSE Outcome(client, fetched.requests \o <<PostRequest(TRUE, payload)>>,
                              IF post.kind = "not_json" THEN ClientError(InvalidJson)
                              ELSE GroupFromResponse(post.body, house))

FetchHouses(self, get, post, city, street) ==
    LET fetched == FetchPageAndCsrf(self, get)
    IN  IF fetched.result.kind = "error" THEN fetched
        ELSE LET client == GetClient(fetched.self)
                 payload == Payload(client, city, street, "")
             IN  IF post.kind = "http_error"
                 THEN Outcome(client, fetched.requests \o <<PostRequest(FALSE, payload)>>,
                              ClientError(FailedToFetchHouses))
                 ELSE Outcome(client, fetched.requests \o <<PostRequest(TRUE, payload)>>,
                              IF post.kind = "not_json" THEN ClientError(InvalidJson)
                              ELSE IF Not(Get(post.body, "result", "None"))
                              THEN Returned(<<>>)
                              ELSE Returned(ItemsKeys(Get(post.body, "data", <<>>))))

-----------------------------------------------------------------------------
(* get_schedule_for_address (client.py 351-411)                            *)

Address(city, street, house) == [city |-> city, street |-> street, house |-> house]

\* The error of lines 369-372; its message is formatted from the address.
CouldNotFindGroup(address) ==
    [kind |-> "error", exc |-> "DTEKClientError",
     msg |-> "Could not find power group for address: {city}, {street}, {house}",
     city |-> address.city, street |-> address.street, house |-> address.house]

\* A lookup that goes on with no group when the address has none.
GetScheduleForAddressNoGroupCheck(self, get, post, address) ==
    LET paged == FetchSchedulePage(self, get)
    IN  IF paged.result.kind = "error" THEN paged
        ELSE LET grouped == FetchAddressGroup(paged.self, get, post,
                                address.city, address.street, address.house)
                 requests == paged.requests \o grouped.requests
             IN  IF grouped.result.kind = "error"
                 THEN Outcome(grouped.self, requests, grouped.result)
                 ELSE Outcome(grouped.self, requests,
                          BuildSchedule(paged.result.value.schedule.data,
                                        paged.result.value.preset,
                                        IF grouped.result.value = <<>> THEN "None"
                                        ELSE grouped.result.value[1]))

GetScheduleForAddress(self, get, post, address) ==
    LET paged == FetchSchedulePage(self, get)
    IN  IF paged.result.kind = "error" THEN paged
        ELSE LET grouped == FetchAddressGroup(paged.self, get, post,
                                address.city, address.street, address.house)
                 requests == paged.requests \o grouped.requests
             IN  IF grouped.result.kind = "error"
                 THEN Outcome(grouped.self, requests, grouped.result)
                 ELSE IF grouped.result.value = <<>>
                 THEN Outcome(grouped.self, requests, CouldNotFindGroup(address))
                 ELSE Outcome(grouped.self, requests,
                          BuildSchedule(paged.result.value.schedule.data,
                                        paged.result.value.preset,
                                        grouped.result.value[1]))

-----------------------------------------------------------------------------
(* The pages and responses the schedule builder is checked on.             *)

\* The dict with the one key given.
One(key, value) == [k \in {key} |-> value]

\* Most days a page lists.
MaxDays == 2

DataHours == {1, 2, 24}

\* Status codes in the raw data; "bad" is no value of PowerStatus.
DataCodes == {"yes", "no", "bad"}

\* hour -> status code, for any of the hours of DataHours.
GroupSchedules ==
    UNION {[keys -> DataCodes] : keys \in SUBSET {DecimalStr(h) : h \in DataHours}}

\* The example of the specification: hour 1 off, hour 2 on.
ExampleGroupSchedule ==
    [key \in {<<"1">>, <<"2">>} |-> IF key = <<"1">> THEN "no" ELSE "yes"]

\* group -> hour -> status code
WideGroupsData == {EmptyDict} \cup {One("G1", hours) : hours \in GroupSchedules}

NarrowGroupsData ==
    {EmptyDict, One("G1", ExampleGroupSchedule), One("G2", One(<<"2", "4">>, "maybe"))}

\* Timestamp keys: two of the same day (one written with a leading zero),
\* one of the next day, and one that is no number.
TimestampKeys == {<<"5">>, <<"0", "5">>, <<"8", "6", "4", "0", "5">>, <<"x">>}

\* The items of fact["data"]: up to MaxDays days under distinct keys, the
\* first drawn from the wide set and the others from the narrow one.
RECURSIVE DataItems(_)
DataItems(n) ==
    IF n = 0 THEN {<<>>}
    ELSE LET shorter == DataItems(n - 1)
         IN  shorter \cup
             UNION {{Append(items, <<key, groups>>) :
                        key \in {k \in TimestampKeys :
                                    \A i \in 1..(n - 1) : items[i][1] # k},
                        groups \in IF n = 1 THEN WideGroupsData
                                   ELSE NarrowGroupsData} :
                    items \in {i \in shorter : Len(i) = n - 1}}

DistinctKeys(items) ==
    \A i, j \in 1..Len(items) : items[i][1] = items[j][1] => i = j

WideData == {items \in DataItems(MaxDays) : DistinctKeys(items)}

NarrowData ==
    {<<>>,
     <<<<<<"x">>, One("G1", One(<<"1">>, "bad"))>>>>,
     <<<<<<"5">>, One("G1", ExampleGroupSchedule)>>>>,
     <<<<<<"8", "6", "4", "0", "5">>, One("G2", One(<<"1">>, "no"))>>,
       <<<<"5">>, One("G1", ExampleGroupSchedule)>>>>}

PresetHours == {1, 5, 24}

\* The entry of the preset's time_zone for an hour: no list element, one, or
\* three as the provider writes them.
TimeInfos(hour_str) ==
    {<<>>,
     <<<<"z">> \o hour_str>>,
     <<<<"z">> \o hour_str, <<"s">>, <<"e">>>>}

TimeZones ==
    UNION {{tz \in [keys -> UNION {TimeInfos(k) : k \in keys}] :
               \A k \in keys : tz[k] \in TimeInfos(k)} :
           keys \in SUBSET {DecimalStr(h) : h \in PresetHours}}

DayNames == One(<<"4">>, <<"T", "h">>)

WidePresets ==
    {EmptyDict} \cup {One("time_zone", tz) : tz \in TimeZones}
        \cup {[key \in {"time_zone", "days"} |->
                  IF key = "days" THEN DayNames ELSE tz] : tz \in TimeZones}

NarrowPresets ==
    {EmptyDict,
     [key \in {"time_zone", "days"} |->
         IF key = "days" THEN DayNames
         ELSE One(<<"1">>, <<<<"z", "1">>, <<"s">>, <<"e">>>>)]}

Streets == One("Odesa", <<"Main">>)

\* A page whose three objects parse, with the preset and the fact given.
SchedulePage(csrf, preset_raw, data) ==
    [csrf |-> csrf,
     objects |-> [name \in {StreetsName, PresetName, FactName} |->
                     IF name = StreetsName THEN Returned(Streets)
                     ELSE IF name = PresetName THEN Returned(preset_raw)
                     ELSE Returned(One("data", data))]]

\* A page one of whose objects cannot be extracted or parsed.
BrokenPage(csrf, name, msg) ==
    [csrf |-> csrf,
     objects |-> [n \in {StreetsName, PresetName, FactName} |->
                     IF n = name THEN ClientError(msg)
                     ELSE IF n = FactName THEN Returned(One("data", <<>>))
                     ELSE Returned(EmptyDict)]]

Houses == {"10", "12"}

\* The entries of the response's data: without sub_type_reason, with an
\* empty list, with one code, with two.
HouseEntries ==
    {EmptyDict,
     One("sub_type_reason", <<>>),
     One("sub_type_reason", <<"G1">>),
     One("sub_type_reason", <<"G2", "G1">>)}

ResponseData ==
    {<<>>}
        \cup {<<<<h, e>>>> : h \in Houses, e \in HouseEntries}
        \cup {<<<<h1, e>>, <<h2, One("sub_type_reason", <<"G2">>)>>>> :
                 h1 \in Houses, h2 \in Houses, e \in HouseEntries}
        \cup {<<<<h2, One("sub_type_reason", <<"G2">>)>>, <<h1, e>>>> :
                 h1 \in Houses, h2 \in Houses, e \in HouseEntries}

ResultValues == {"true", "1"} \cup FalsyValues

WideResponses ==
    {HttpError, NotJson, Json(EmptyDict)}
        \cup {Json(One("result", r)) : r \in ResultValues}
        \cup {Json(One("data", d)) : d \in {x \in ResponseData : DistinctKeys(x)}}
        \cup {Json([key \in {"result", "data"} |-> IF key = "result" THEN r ELSE d]) :
                 r \in ResultValues, d \in {x \in ResponseData : DistinctKeys(x)}}

FoundIn(house, groups) ==
    Json([key \in {"result", "data"} |->
             IF key = "result" THEN "true"
             ELSE <<<<house, One("sub_type_reason", groups)>>>>])

NarrowResponses ==
    {FoundIn("10", <<"G1">>), FoundIn("10", <<"G2", "G1">>), FoundIn("12", <<"G1">>)}

Server(page, post) == [page |-> page, post |-> post]

\* The server holds one of these: a page with wide data, a page without a
\* token, a page with any of the wide responses, or a broken page.
ServerGiven ==
    \/ \E preset_raw \in NarrowPresets, data \in WideData :
          server = Server(SchedulePage(<<"t1">>, preset_raw, data),
                          FoundIn("10", <<"G1">>))
    \/ \E preset_raw \in WidePresets, data \in NarrowData, post \in NarrowResponses :
          server = Server(SchedulePage(<<>>, preset_raw, data), post)
    \/ \E preset_raw \in NarrowPresets, data \in NarrowData, post \in WideResponses :
          server = Server(SchedulePage(<<"t1">>, preset_raw, data), post)
    \/ \E name \in {StreetsName, PresetName, FactName},
          msg \in {CouldNotFind, ExpectedObject, UnbalancedBraces, FailedToParse},
          post \in NarrowResponses :
          server = Server(BrokenPage(<<>>, name, msg), post)

Addresses == {Address("Odesa", "Main", "10")}

InitSchedule ==
    /\ ServerGiven
    /\ query \in Addresses
    /\ group_result = NotCalled
    /\ schedule_result = NotCalled
    /\ ExtractIdle
    /\ ParseIdle
    /\ SessionIdle
    /\ CliIdle
    /\ PeriodsIdle
    /\ AddressIdle

\* client.fetch_address_group(city, street, house) on a new client
CallFetchAddressGroup ==
    /\ group_result = NotCalled
    /\ group_result' =
          FetchAddressGroup(NewClient, Page(server.page), server.post,
                            query.city, query.street, query.house).result
    /\ UNCHANGED <<server, query, schedule_result, extractVars, parseVars, sessionVars,
                 modelsVars, cliVars>>

\* client.get_schedule_for_address(query) on a new client
CallGetScheduleForAddress ==
    /\ schedule_result = NotCalled
    /\ schedule_result' =
          GetScheduleForAddress(NewClient, Page(server.page), server.post, query).result
    /\ UNCHANGED <<server, query, group_result, extractVars, parseVars, sessionVars,
                 modelsVars, cliVars>>

NextSchedule == CallFetchAddressGroup \/ CallGetScheduleForAddress

SpecSchedule == InitSchedule /\ [][NextSchedule]_vars

-----------------------------------------------------------------------------
(* fetch_address_group and get_schedule_for_address against what the       *)
(* server holds                                                            *)

\* The JSON object of the response.
ResponseBody == server.post.body

\* The value of the response's result field is false to Python, a missing
\* field among them.
ResultFalsy ==
    "result" \notin DOMAIN ResponseBody \/ ResponseBody["result"] \in FalsyValues

\* The entries the response's data has for the house looked up.
EntriesForHouse ==
    IF "data" \notin DOMAIN ResponseBody THEN {}
    ELSE {item[2] : item \in {ResponseBody["data"][k] : k \in 1..Len(ResponseBody["data"])}
                             \cap {i \in {ResponseBody["data"][k] : k \in 1..Len(ResponseBody["data"])} :
                                      i[1] = query.house}}

\* The lists of reason codes of those entries; an entry without the field
\* has none.
ReasonCodeLists ==
    {entry["sub_type_reason"] : entry \in {e \in EntriesForHouse : "sub_type_reason" \in DOMAIN e}}

NonEmptyCodeLists == {codes \in ReasonCodeLists : codes # <<>>}

\* The address resolves to no group.
ResolvesToNone == ResultFalsy \/ NonEmptyCodeLists = {}

PageParses ==
    \A name \in {StreetsName, PresetName, FactName} :
        server.page.objects[name].kind = "value"

\* The items of the page's fact data.
PageData == Get(server.page.objects[FactName].value, "data", <<>>)

\* The time_zone table of the page's preset.
PageTimeZones == Get(server.page.objects[PresetName].value, "time_zone", EmptyDict)

\* C8: when the address resolves to no group, get_schedule_for_address
\* raises the error whose message names the city, the street and the house
\* of the address, and returns no schedule, whatever data the page holds.
C8_NoGroupIsAnError ==
    (/\ schedule_result # NotCalled
     /\ PageParses
     /\ server.post.kind = "json"
     /\ ResolvesToNone) =>
        /\ schedule_result.kind = "error"
        /\ DOMAIN schedule_result = DOMAIN CouldNotFindGroup(query)
        /\ schedule_result.exc = "DTEKClientError"
        /\ schedule_result.msg =
              "Could not find power group for address: {city}, {street}, {house}"
        /\ schedule_result.city = query.city
        /\ schedule_result.street = query.street
        /\ schedule_result.house = query.house

\* The error is raised on a page that lists days, and on one whose data
\* could not be built into a schedule.
C8_Witness ==
    /\ PageParses
    /\ server.post.kind = "json"
    /\ ~ResultFalsy
    /\ EntriesForHouse # {}
    /\ ResolvesToNone
    /\ PageData # <<>>
    /\ PageData[1][1] = <<"x">>
    /\ schedule_result = CouldNotFindGroup(query)

\* The status code the raw data of an item gives for the group and the
\* hour, "yes" when it gives none.
RawStatus(groups_data, group, h) ==
    IF group \in DOMAIN groups_data /\ DecimalStr(h) \in DOMAIN groups_data[group]
    THEN groups_data[group][DecimalStr(h)]
    ELSE "yes"

\* The day is the one built from the item: its hours are hours 1 to 24 in
\* order, each with the status the item's raw data gives.
DayOfItem(day, item) ==
    /\ day.date = FromTimestamp(ParseInt(item[1]))
    /\ Len(day.hours) = 24
    /\ \A i \in 1..24 :
          /\ day.hours[i].hour = i
          /\ day.hours[i].status = RawStatus(item[2], day.group, i)

\* The one-to-one matchings of the days returned with the items of the data.
Matchings(days, data) ==
    {f \in [1..Len(days) -> 1..Len(data)] :
        /\ \A i, j \in 1..Len(days) : f[i] = f[j] => i = j
        /\ \A k \in 1..Len(data) : \E i \in 1..Len(days) : f[i] = k}

\* C9: every day returned by get_schedule_for_address is the day of one
\* timestamp of the raw data and has exactly 24 hours, the i-th having
\* hour i; the status of hour h is the code the raw data gives for that
\* timestamp, the resolved group and hour h, and is "yes" when the group is
\* absent for that day or the hour is absent for the group.
C9_HoursFromRawData ==
    schedule_result.kind = "value" =>
        /\ \A i \in 1..Len(schedule_result.value) :
              \E codes \in NonEmptyCodeLists : schedule_result.value[i].group = codes[1]
        /\ \E f \in Matchings(schedule_result.value, PageData) :
              \A i \in 1..Len(schedule_result.value) :
                  DayOfItem(schedule_result.value[i], PageData[f[i]])

\* Two days are returned in the order of their dates, not of the data: the
\* earlier has hour 1 off and hours 2 to 24 on, the later lists another
\* group only and is on all day.
C9_Witness ==
    /\ schedule_result.kind = "value"
    /\ Len(schedule_result.value) = 2
    /\ PageData[1][1] = <<"8", "6", "4", "0", "5">>
    /\ schedule_result.value[1].date = FromTimestamp(5)
    /\ schedule_result.value[1].hours[1].status = "no"
    /\ \A i \in 2..24 : schedule_result.value[1].hours[i].status = "yes"
    /\ "G1" \notin DOMAIN PageData[1][2]
    /\ \A i \in 1..24 : schedule_result.value[2].hours[i].status = "yes"

\* C10: for every hour h of every day returned, the time range is the first
\* element of the preset's entry for h when the entry exists and is not
\* empty, and otherwise h-1 and h, both on two digits, joined by a dash.
C10_PaddedFallback ==
    schedule_result.kind = "value" =>
        \A i \in 1..Len(schedule_result.value) :
            \A h \in 1..24 :
                schedule_result.value[i].hours[h].time_range =
                    IF /\ DecimalStr(h) \in DOMAIN PageTimeZones
                       /\ PageTimeZones[DecimalStr(h)] # <<>>
                    THEN PageTimeZones[DecimalStr(h)][1]
                    ELSE TimeRangeFallbackPadded(DecimalStr(h))

-----------------------------------------------------------------------------
(* One DTEKClient object in use: the operations called on it in any order, *)
(* inside a with block or outside one                                      *)

\* Most public operations called on the object.
MaxCalls == 3

\* The pages the server may answer a GET with: one with a CSRF token and a
\* schedule, one without a token, one with another token whose streets
\* cannot be extracted.
SessionPages ==
    {SchedulePage(<<"t1">>, One("time_zone", One(<<"1">>, <<<<"z", "1">>>>)),
                  <<<<<<"5">>, One("G1", ExampleGroupSchedule)>>>>),
     SchedulePage(<<>>, EmptyDict, <<>>),
     BrokenPage(<<"t2">>, StreetsName, CouldNotFind)}

GetOutcomes == {HttpError} \cup {Page(page) : page \in SessionPages}

PostOutcomes ==
    {HttpError, NotJson, FoundIn("10", <<"G1">>), Json(One("result", "false"))}

SessionAddress == Address("Odesa", "Main", "10")

PublicOperations ==
    {"fetch_schedule_page", "fetch_address_group", "fetch_houses",
     "get_schedule_for_address"}

\* What the operation op does on the object self when the server answers a
\* GET with get and a POST with post.
Operation(op, self, get, post) ==
    IF op = "fetch_schedule_page" THEN FetchSchedulePage(self, get)
    ELSE IF op = "fetch_address_group"
    THEN FetchAddressGroup(self, get, post, SessionAddress.city,
                           SessionAddress.street, SessionAddress.house)
    ELSE IF op = "fetch_houses"
    THEN FetchHouses(self, get, post, SessionAddress.city, SessionAddress.street)
    ELSE GetScheduleForAddress(self, get, post, SessionAddress)

\* The requests of the sequence with the method and the success given.
Requests(requests, method, ok) ==
    {k \in 1..Len(requests) : requests[k].method = method /\ requests[k].ok = ok}

\* The caller can call the object: no error is propagating out of a with
\* block, where nothing else runs before __exit__.
CanCall == ~raising /\ calls < MaxCalls

\* What a call of a public operation does.
Called(op) ==
    /\ \E get \in GetOutcomes, post \in PostOutcomes :
          LET out == Operation(op, dtek, get, post)
              gets == Cardinality(Requests(out.requests, "GET", TRUE))
          IN  /\ dtek' = out.self
              /\ open_connections' =
                    IF dtek.client = <<>> /\ out.self.client # <<>>
                    THEN open_connections + 1
                    ELSE open_connections
              /\ raising' = (scope = "with" /\ out.result.kind = "error")
              /\ session' =
                    [gets_ok |-> session.gets_ok + gets,
                     page |-> IF session.page = <<>> /\ gets > 0
                              THEN <<get.page>>
                              ELSE session.page]
              /\ last_call' =
                    [op |-> op, requests |-> out.requests, result |-> out.result,
                     post |-> post, gets_before |-> session.gets_ok,
                     page_before |-> session.page,
                     was_open |-> dtek.client # <<>>, after_error |-> FALSE]
    /\ calls' = calls + 1
    /\ UNCHANGED <<scope, stale_tokens, extractVars, parseVars, scheduleVars, modelsVars, cliVars>>

CallFetchSchedulePage ==
    /\ CanCall
    /\ Called("fetch_schedule_page")

CallSessionFetchAddressGroup ==
    /\ CanCall
    /\ Called("fetch_address_group")

CallFetchHouses ==
    /\ CanCall
    /\ Called("fetch_houses")

CallSessionGetScheduleForAddress ==
    /\ CanCall
    /\ Called("get_schedule_for_address")

\* What close() and __exit__ leave behind.
Closed(name) ==
    /\ dtek' = Close(dtek)
    /\ open_connections' =
          IF ClosesConnection(dtek) THEN open_connections - 1 ELSE open_connections
    /\ session' = NoSession
    /\ stale_tokens' =
          IF dtek.csrf_token # <<>> THEN stale_tokens \cup {dtek.csrf_token}
          ELSE stale_tokens
    /\ last_call' =
          [op |-> name, requests |-> <<>>, result |-> NotCalled, post |-> NotCalled,
           gets_before |-> session.gets_ok, page_before |-> session.page,
           was_open |-> dtek.client # <<>>, after_error |-> raising]

\* client.close()
CallClose ==
    /\ ~raising
    /\ Closed("close")
    /\ UNCHANGED <<scope, raising, calls, extractVars, parseVars, scheduleVars,
                   modelsVars, cliVars>>

\* with client: __enter__ (lines 98-100) returns the object as it is.
Enter ==
    /\ scope = "none"
    /\ scope' = "with"
    /\ UNCHANGED <<dtek, open_connections, raising, session, last_call, calls,
                   stale_tokens,
                   extractVars, parseVars, scheduleVars, modelsVars, cliVars>>

\* The with block is left, at its end or by an error: __exit__ (lines
\* 102-104) calls close() and lets the error go on.
Exit ==
    /\ scope = "with"
    /\ Closed("__exit__")
    /\ scope' = "none"
    /\ raising' = FALSE
    /\ UNCHANGED <<calls, extractVars, parseVars, scheduleVars, modelsVars, cliVars>>

InitSession ==
    /\ SessionIdle
    /\ CliIdle
    /\ ExtractIdle
    /\ ParseIdle
    /\ ScheduleIdle
    /\ PeriodsIdle
    /\ AddressIdle

NextSession ==
    \/ CallFetchSchedulePage
    \/ CallSessionFetchAddressGroup
    \/ CallFetchHouses
    \/ CallSessionGetScheduleForAddress
    \/ CallClose
    \/ Enter
    \/ Exit

SpecSession == InitSession /\ [][NextSession]_vars

\* The last_call call was a public operation.
LastIsOperation == last_call.op \in PublicOperations

\* What fetch_schedule_page makes of a page.
ParsedPage(page) == FetchSchedulePage(NewClient, Page(page)).result

\* C4: between creation or the last_call close and the next close at most one
\* GET succeeds; once one has, every later call of the four operations
\* issues no GET, sends the CSRF token of the page of that GET, gives what
\* that page gives, and leaves that page and that token in the cache.
C4_OneGetPerSession ==
    /\ session.gets_ok <= 1
    /\ session.page # <<>> =>
          /\ dtek.page_html = session.page
          /\ dtek.csrf_token = session.page[1].csrf
    /\ (LastIsOperation /\ last_call.gets_before >= 1) =>
          /\ \A k \in 1..Len(last_call.requests) :
                /\ last_call.requests[k].method = "POST"
                /\ last_call.requests[k].payload.csrf = last_call.page_before[1].csrf
          /\ session.page = last_call.page_before
          /\ last_call.op = "fetch_schedule_page" =>
                last_call.result = ParsedPage(last_call.page_before[1])
          /\ last_call.op = "get_schedule_for_address" =>
                last_call.result =
                    GetScheduleForAddress(NewClient, Page(last_call.page_before[1]),
                                          last_call.post, SessionAddress).result

\* After a GET that succeeded, a second and a third operation have run; the
\* third sent the token of the first page and issued no GET.
C4_Witness ==
    /\ calls = 3
    /\ last_call.op = "get_schedule_for_address"
    /\ last_call.gets_before = 1
    /\ last_call.page_before[1].csrf = <<"t1">>
    /\ Len(last_call.requests) = 1
    /\ last_call.requests[1].payload.csrf = <<"t1">>
    /\ last_call.result.kind = "value"

\* C5: when a with block on the client has been left, at its end or by an
\* error of an operation in it, the connection is closed and the client
\* holds no connection, no cached page and no CSRF token.
C5_ExitReleases ==
    last_call.op = "__exit__" =>
        /\ dtek.client = <<>>
        /\ dtek.page_html = <<>>
        /\ dtek.csrf_token = <<>>
        /\ open_connections = 0

\* The block is left by an error, with a connection open and a page and a
\* token cached.
C5_Witness ==
    /\ last_call.op = "__exit__"
    /\ last_call.after_error
    /\ last_call.was_open
    /\ last_call.page_before # <<>>
    /\ last_call.page_before[1].csrf # <<>>
    /\ scope = "none"

\* What an operation raises when its GET or its POST fails.
FetchErrors ==
    {ClientError(FailedToFetchPage), ClientError(FailedToFetchGroup),
     ClientError(FailedToFetchHouses)}

\* C6: in every public operation a GET or a POST that fails is the last_call
\* request of the operation and the operation raises the error of that
\* failure; get_schedule_for_address issues at most one GET and one POST.
C6_NoRetries ==
    LastIsOperation =>
        /\ \A k \in 1..Len(last_call.requests) :
              ~last_call.requests[k].ok =>
                  /\ k = Len(last_call.requests)
                  /\ last_call.result \in FetchErrors
        /\ last_call.op = "get_schedule_for_address" =>
              /\ Cardinality({k \in 1..Len(last_call.requests) :
                                 last_call.requests[k].method = "GET"}) <= 1
              /\ Cardinality({k \in 1..Len(last_call.requests) :
                                 last_call.requests[k].method = "POST"}) <= 1

\* get_schedule_for_address got its page and failed on the POST.
C6_Witness ==
    /\ last_call.op = "get_schedule_for_address"
    /\ Len(last_call.requests) = 2
    /\ last_call.requests[1].method = "GET"
    /\ last_call.requests[1].ok
    /\ last_call.requests[2].method = "POST"
    /\ ~last_call.requests[2].ok
    /\ last_call.result = ClientError(FailedToFetchGroup)

-----------------------------------------------------------------------------
(* The list get_schedule_for_address returns                               *)

\* The group the address resolves to.
ResolvedGroups == {codes[1] : codes \in NonEmptyCodeLists}

\* C11: when get_schedule_for_address returns, the list has exactly one
\* DaySchedule for each timestamp key of the raw data, each with the group
\* the address resolved to, and the dates never go down along the list,
\* whatever the order of the keys in the data.
C11_OneDayPerKeySorted ==
    schedule_result.kind = "value" =>
        /\ Len(schedule_result.value) = Len(PageData)
        /\ \E f \in Matchings(schedule_result.value, PageData) :
              \A i \in 1..Len(schedule_result.value) :
                  /\ schedule_result.value[i].date =
                        FromTimestamp(ParseInt(PageData[f[i]][1]))
                  /\ schedule_result.value[i].group \in ResolvedGroups
        /\ \A i, j \in 1..Len(schedule_result.value) :
              i < j => ~DateBefore(schedule_result.value[j].date,
                                   schedule_result.value[i].date)

\* The data lists the later day first and the earlier day comes first in
\* the list returned.
C11_Witness ==
    /\ schedule_result.kind = "value"
    /\ Len(PageData) = 2
    /\ DateBefore(FromTimestamp(ParseInt(PageData[2][1])),
                  FromTimestamp(ParseInt(PageData[1][1])))
    /\ Len(schedule_result.value) = 2
    /\ schedule_result.value[1].date = FromTimestamp(ParseInt(PageData[2][1]))
    /\ schedule_result.value[2].date = FromTimestamp(ParseInt(PageData[1][1]))
    /\ schedule_result.value[1].group = "G1"

-----------------------------------------------------------------------------
(* models.py: HourStatus.start_time, end_time and                          *)
(* DaySchedule.get_outage_periods (models.py 109-160)                      *)

\* f"{n:02d}:00"
Clock(n) == Format02d(n) \o <<":", "0", "0">>

\* HourStatus.start_time (lines 109-112)
StartTime(hour) == Clock(hour.hour - 1)

\* HourStatus.end_time (lines 114-117)
EndTime(hour) ==
    IF hour.hour < 24 THEN Clock(hour.hour) ELSE <<"2", "4", ":", "0", "0">>

\* PowerStatus.has_power (lines 19-22)
HasPower(status) == status = "yes"

\* A scan that takes the status of the latest hour of an outage.
RECURSIVE ScanHoursLatestStatus(_, _, _, _, _)
ScanHoursLatestStatus(hours, k, found, current_start, current_status) ==
    IF k > Len(hours)
    THEN [periods |-> found, current_start |-> current_start,
          current_status |-> current_status]
    ELSE LET hour == hours[k]
         IN  IF ~HasPower(hour.status)
             THEN ScanHoursLatestStatus(hours, k + 1, found,
                      IF current_start = <<>> THEN <<StartTime(hour)>> ELSE current_start,
                      <<hour.status>>)
             ELSE IF current_start # <<>> /\ current_status # <<>>
             THEN LET prev_hour == IF hour.hour > 1 THEN hours[hour.hour - 1] ELSE hour
                  IN  ScanHoursLatestStatus(hours, k + 1,
                          Append(found, <<current_start[1], EndTime(prev_hour),
                                          current_status[1]>>),
                          <<>>, <<>>)
             ELSE ScanHoursLatestStatus(hours, k + 1, found, current_start, current_status)

\* The loop of lines 144-154 from the k-th hour on: found is periods so far,
\* current_start and current_status are None (<<>>) or hold a value.
\* self.hours[hour.hour - 2] of Python is hours[hour.hour - 1] here.
RECURSIVE ScanHours(_, _, _, _, _)
ScanHours(hours, k, found, current_start, current_status) ==
    IF k > Len(hours)
    THEN [periods |-> found, current_start |-> current_start,
          current_status |-> current_status]
    ELSE LET hour == hours[k]
         IN  IF ~HasPower(hour.status)
             THEN IF current_start = <<>>
                  THEN ScanHours(hours, k + 1, found, <<StartTime(hour)>>, <<hour.status>>)
                  ELSE ScanHours(hours, k + 1, found, current_start, current_status)
             ELSE IF current_start # <<>> /\ current_status # <<>>
             THEN LET prev_hour == IF hour.hour > 1 THEN hours[hour.hour - 1] ELSE hour
                  IN  ScanHours(hours, k + 1,
                          Append(found, <<current_start[1], EndTime(prev_hour),
                                          current_status[1]>>),
                          <<>>, <<>>)
             ELSE ScanHours(hours, k + 1, found, current_start, current_status)

\* A scan that forgets an outage still open after the last hour.
GetOutagePeriodsOpenAtDayEnd(hours) == ScanHours(hours, 1, <<>>, <<>>, <<>>).periods

\* get_outage_periods (lines 134-160)
GetOutagePeriods(hours) ==
    LET scanned == ScanHours(hours, 1, <<>>, <<>>, <<>>)
    IN  IF scanned.current_start # <<>> /\ scanned.current_status # <<>>
        THEN Append(scanned.periods,
                    <<scanned.current_start[1], <<"2", "4", ":", "0", "0">>,
                      scanned.current_status[1]>>)
        ELSE scanned.periods

\* The first hours of the day whose status is free in the days checked.
MaxHead == 5

\* The hours whose status is free: the first ones and the last two; every
\* other hour is on.
FreeHours == (1..MaxHead) \cup {23, 24}

PeriodCodes == {"yes", "no", "maybe"}

\* The hours of a day as get_schedule_for_address builds them: hours 1 to
\* 24 in order.
DayHours(status) ==
    [h \in FirstHour..LastHour |->
        HourStatus(h, IF h \in FreeHours THEN status[h] ELSE "yes",
                   TimeRangeFallback(DecimalStr(h)))]

Days == {DayHours(status) : status \in [FreeHours -> PeriodCodes]}

InitPeriods ==
    /\ day_hours \in Days
    /\ periods = NotCalled
    /\ AddressIdle
    /\ ExtractIdle
    /\ ParseIdle
    /\ ScheduleIdle
    /\ SessionIdle
    /\ CliIdle

\* day.get_outage_periods()
CallGetOutagePeriods ==
    /\ periods = NotCalled
    /\ periods' = Returned(GetOutagePeriods(day_hours))
    /\ UNCHANGED <<day_hours, addressVars, extractVars, parseVars, scheduleVars,
                   sessionVars, cliVars>>

NextPeriods == CallGetOutagePeriods

SpecPeriods == InitPeriods /\ [][NextPeriods]_vars

\* The clock time n:00 on two digits.
ClockTime(n) == <<Digits[(n \div 10) + 1], Digits[(n % 10) + 1], ":", "0", "0">>

Off(h) == day_hours[h].status # "yes"

\* The maximal runs a..b of consecutive hours of the day that are not on.
Runs ==
    {run \in (1..24) \X (1..24) :
        /\ run[1] <= run[2]
        /\ \A h \in run[1]..run[2] : Off(h)
        /\ run[1] = 1 \/ ~Off(run[1] - 1)
        /\ run[2] = 24 \/ ~Off(run[2] + 1)}

\* The i-th of them in hour order.
RunAt(i) ==
    CHOOSE run \in Runs : Cardinality({r \in Runs : r[1] < run[1]}) = i - 1

\* C12: on a day of 24 hours in ascending order get_outage_periods returns,
\* in hour order, exactly one period for each maximal run of consecutive
\* hours that are not "yes": the run a..b starts at (a-1):00 and ends at
\* b:00, both on two digits, which is 24:00 for a run that reaches hour 24;
\* a day that is on all day has no period.
C12_OnePeriodPerRun ==
    periods.kind = "value" =>
        /\ Len(periods.value) = Cardinality(Runs)
        /\ \A i \in 1..Len(periods.value) :
              /\ periods.value[i][1] = ClockTime(RunAt(i)[1] - 1)
              /\ periods.value[i][2] = ClockTime(RunAt(i)[2])

\* Hours 3 to 5 and hours 23 to 24 are off, every other hour is on: the
\* periods are 02:00-05:00 and 22:00-24:00.
C12_Witness ==
    /\ \A h \in 1..24 : Off(h) <=> h \in {3, 4, 5, 23, 24}
    /\ periods.kind = "value"
    /\ Len(periods.value) = 2
    /\ periods.value[1][1] = <<"0", "2", ":", "0", "0">>
    /\ periods.value[1][2] = <<"0", "5", ":", "0", "0">>
    /\ periods.value[2][1] = <<"2", "2", ":", "0", "0">>
    /\ periods.value[2][2] = <<"2", "4", ":", "0", "0">>

\* The hour at which a period starts and the hour with which it ends, read
\* back from its clock times.
FirstHourOf(period) == CHOOSE a \in 1..24 : ClockTime(a - 1) = period[1]

LastHourOf(period) == CHOOSE b \in 1..24 : ClockTime(b) = period[2]

\* C16: each period of get_outage_periods has the status of the first hour
\* of its run; every hour of a period is off, whatever statuses follow one
\* another in it, so a change of status does not split a run; the periods
\* do not overlap and between two periods in a row at least one hour is
\* "yes".
C16_StatusOfFirstHour ==
    periods.kind = "value" =>
        /\ \A i \in 1..Len(periods.value) :
              /\ \E a \in 1..24 : ClockTime(a - 1) = periods.value[i][1]
              /\ \E b \in 1..24 : ClockTime(b) = periods.value[i][2]
              /\ FirstHourOf(periods.value[i]) <= LastHourOf(periods.value[i])
              /\ periods.value[i][3] = day_hours[FirstHourOf(periods.value[i])].status
              /\ \A h \in FirstHourOf(periods.value[i])..LastHourOf(periods.value[i]) :
                    Off(h)
        /\ \A i \in 1..(Len(periods.value) - 1) :
              \E h \in 1..24 :
                  /\ LastHourOf(periods.value[i]) < h
                  /\ h < FirstHourOf(periods.value[i + 1])
                  /\ day_hours[h].status = "yes"
        /\ \A h \in 1..24 :
              Off(h) => \E i \in 1..Len(periods.value) :
                  /\ FirstHourOf(periods.value[i]) <= h
                  /\ h <= LastHourOf(periods.value[i])

\* Hour 1 is "no", hours 2 and 3 are "maybe", hour 4 is on: one period from
\* 00:00 to 03:00 with the status "no"; a later period has its own status.
C16_Witness ==
    /\ day_hours[1].status = "no"
    /\ day_hours[2].status = "maybe"
    /\ day_hours[3].status = "maybe"
    /\ day_hours[4].status = "yes"
    /\ day_hours[24].status = "maybe"
    /\ periods.kind = "value"
    /\ Len(periods.value) >= 2
    /\ periods.value[1] = <<ClockTime(0), ClockTime(3), "no">>
    /\ periods.value[Len(periods.value)][3] = "maybe"

-----------------------------------------------------------------------------
(* models.py: Address.from_string (models.py 80-98)                        *)

\* text.split(","): the pieces between the commas, at least one.
RECURSIVE Split(_, _)
Split(text, piece) ==
    IF text = <<>> THEN <<piece>>
    ELSE IF Head(text) = "," THEN <<piece>> \o Split(Tail(text), <<>>)
    ELSE Split(Tail(text), Append(piece, Head(text)))

\* A strip that leaves the whitespace at the end.
RECURSIVE StripLeadingOnly(_)
StripLeadingOnly(text) ==
    IF text # <<>> /\ Head(text) \in Whitespace THEN StripLeadingOnly(Tail(text))
    ELSE text

\* text.strip()
RECURSIVE Strip(_)
Strip(text) ==
    IF text # <<>> /\ Head(text) \in Whitespace THEN Strip(Tail(text))
    ELSE IF text # <<>> /\ text[Len(text)] \in Whitespace
    THEN Strip(SubSeq(text, 1, Len(text) - 1))
    ELSE text

\* Address.from_string (lines 93-98)
FromString(text) ==
    LET split == Split(text, <<>>)
        parts == [i \in 1..Len(split) |-> Strip(split[i])]
    IN  IF Len(parts) # 3 THEN Raised("ValueError")
        ELSE Returned(Address(parts[1], parts[2], parts[3]))

\* Longest address string.
MaxAddressLen == 7

AddressAlphabet == {"a", ",", " "}

AddressInputs == SeqsUpTo(AddressAlphabet, MaxAddressLen)

InitAddress ==
    /\ address_str \in AddressInputs
    /\ from_string = NotCalled
    /\ PeriodsIdle
    /\ ExtractIdle
    /\ ParseIdle
    /\ ScheduleIdle
    /\ SessionIdle
    /\ CliIdle

\* Address.from_string(address_str)
CallFromString ==
    /\ from_string = NotCalled
    /\ from_string' = FromString(address_str)
    /\ UNCHANGED <<address_str, periodVars, extractVars, parseVars, scheduleVars,
                   sessionVars, cliVars>>

NextAddress == CallFromString

SpecAddress == InitAddress /\ [][NextAddress]_vars

\* The places of the commas of the address string.
Commas == {k \in 1..Len(address_str) : address_str[k] = ","}

\* The n-th segment: the text between the (n-1)-th comma and the n-th, the
\* ends of the string standing for the commas that are not there.
Segment(n) ==
    LET before == {k \in Commas : Cardinality({c \in Commas : c < k}) = n - 2}
        after == {k \in Commas : Cardinality({c \in Commas : c < k}) = n - 1}
        from == IF before = {} THEN 1 ELSE (CHOOSE k \in before : TRUE) + 1
        to == IF after = {} THEN Len(address_str) ELSE (CHOOSE k \in after : TRUE) - 1
    IN  SubSeq(address_str, from, to)

\* trimmed is segment without the whitespace around it.
IsTrimmed(trimmed, segment) ==
    /\ \E i, j \in 0..Len(segment) :
          /\ i + Len(trimmed) + j = Len(segment)
          /\ \A k \in 1..Len(segment) :
                IF k <= i \/ k > i + Len(trimmed)
                THEN segment[k] \in Whitespace
                ELSE segment[k] = trimmed[k - i]
    /\ trimmed # <<>> =>
          trimmed[1] \notin Whitespace /\ trimmed[Len(trimmed)] \notin Whitespace

\* C13: a string of exactly three comma-separated segments is parsed to
\* the Address whose city, street and house are the three segments in
\* order without the whitespace around them; a string of any other number
\* of segments raises ValueError and gives no Address.
C13_ThreeSegments ==
    from_string # NotCalled =>
        IF Cardinality(Commas) = 2
        THEN /\ from_string.kind = "value"
             /\ IsTrimmed(from_string.value.city, Segment(1))
             /\ IsTrimmed(from_string.value.street, Segment(2))
             /\ IsTrimmed(from_string.value.house, Segment(3))
        ELSE from_string = Raised("ValueError")

\* " a,a ,a" is read as the address a, a, a.
C13_Witness ==
    /\ address_str = <<" ", "a", ",", "a", " ", ",", "a">>
    /\ from_string = Returned(Address(<<"a">>, <<"a">>, <<"a">>))

-----------------------------------------------------------------------------
(* The POST and the CSRF token it carries                                  *)

\* The places of the POSTs among the requests of the last call.
LastPosts ==
    {k \in 1..Len(last_call.requests) : last_call.requests[k].method = "POST"}

\* C14: a POST is sent only after a GET of the same session has succeeded,
\* in the same call or in an earlier one, and never after a GET that
\* failed; the POST carries a CSRF token exactly when the page of that GET
\* held one, and the token is that page's, not one a close has cleared.
C14_PostAfterPage ==
    LastIsOperation =>
        /\ \A k \in LastPosts :
              /\ \/ last_call.gets_before >= 1
                 \/ \E j \in 1..(k - 1) :
                       /\ last_call.requests[j].method = "GET"
                       /\ last_call.requests[j].ok
              /\ session.page # <<>>
              /\ last_call.requests[k].payload.csrf = session.page[1].csrf
              /\ last_call.requests[k].payload.csrf # <<>> <=>
                    session.page[1].csrf # <<>>
        /\ (\E j \in 1..Len(last_call.requests) :
                last_call.requests[j].method = "GET" /\ ~last_call.requests[j].ok)
              => LastPosts = {}

\* A session whose page held a token was closed; in the next session the
\* page holds none and the POST carries none.
C14_Witness ==
    /\ last_call.op \in {"fetch_address_group", "fetch_houses"}
    /\ <<"t1">> \in stale_tokens
    /\ LastPosts # {}
    /\ session.page # <<>>
    /\ session.page[1].csrf = <<>>
    /\ \A k \in LastPosts : last_call.requests[k].payload.csrf = <<>>

-----------------------------------------------------------------------------
(* The errors of get_schedule_for_address                                  *)

\* C15: whatever the page and the response hold, get_schedule_for_address
\* returns a list of DaySchedule or raises DTEKClientError, the one error
\* the command line catches; a status code that is no value of PowerStatus
\* or a timestamp key that is no integer raises no other kind of error.
C15_OnlyClientErrors ==
    schedule_result # NotCalled =>
        \/ schedule_result.kind = "value"
        \/ schedule_result.kind = "error" /\ schedule_result.exc = "DTEKClientError"

-----------------------------------------------------------------------------
(* config.py: the config store (config.py 21-92)                           *)

\* load_config (lines 21-37): {} when there is no file.  Of the config only
\* the default address is kept: <<>> when the key is missing.
LoadConfig(file) == IF file = <<>> THEN [default_address |-> <<>>] ELSE file[1]

\* get_default_address (lines 51-69): None (<<>>) when there is none or one
\* of its fields is empty.
GetDefaultAddress(file) ==
    LET address_data == LoadConfig(file).default_address
    IN  IF address_data = <<>> THEN <<>>
        ELSE IF \/ address_data[1].city = <<>>
                \/ address_data[1].street = <<>>
                \/ address_data[1].house = <<>>
        THEN <<>>
        ELSE address_data

\* set_default_address (lines 72-84): the file after it.
SetDefaultAddress(file, address) ==
    <<[LoadConfig(file) EXCEPT !.default_address = <<address>>]>>

\* clear_default_address (lines 87-92): the file after it.
ClearDefaultAddress(file) ==
    IF LoadConfig(file).default_address # <<>>
    THEN <<[LoadConfig(file) EXCEPT !.default_address = <<>>]>>
    ELSE file

-----------------------------------------------------------------------------
(* cli.py: the commands set-address, check and clear-address               *)
(* (cli.py 81-236)                                                         *)

\* A step of a command: what it called, how the call ended and the address
\* it was about.
Step(step, outcome, address) ==
    [step |-> step, outcome |-> outcome, address |-> address]

\* How a command ended: the config file after it, the steps it took, its
\* exit code and the exception that left it uncaught, if one did.
Ended(file, events, exit_code, uncaught) ==
    [config |-> file, events |-> events, exit_code |-> exit_code,
     uncaught |-> uncaught]

\* with DTEKClient() as client: client.fetch_address_group(...), as a step.
Verify(addr, get, post) ==
    LET group == FetchAddressGroup(NewClient, get, post, addr.city, addr.street,
                                   addr.house).result
    IN  Step("fetch_address_group",
             IF group.kind = "error" THEN "error"
             ELSE IF group.value = <<>> THEN "none"
             ELSE "group",
             <<addr>>)

\* A set-address that saves an address that has no group.
SetAddressUnverified(file, address, get, post) ==
    LET from_str == FromString(address)
    IN  IF from_str.kind = "error"
        THEN Ended(file, <<Step("from_string", "error", <<>>)>>, 1, "")
        ELSE LET addr == from_str.value
                 parse == Step("from_string", "ok", <<addr>>)
                 verify == Verify(addr, get, post)
             IN  IF verify.outcome = "error"
                 THEN Ended(file, <<parse, verify>>, 1, "")
                 ELSE Ended(SetDefaultAddress(file, addr),
                            <<parse, verify, Step("set_default_address", "ok", <<addr>>)>>,
                            0, "")

\* set_address (lines 187-218)
SetAddress(file, address, get, post) ==
    LET from_str == FromString(address)
    IN  IF from_str.kind = "error"
        THEN Ended(file, <<Step("from_string", "error", <<>>)>>, 1, "")
        ELSE LET addr == from_str.value
                 parse == Step("from_string", "ok", <<addr>>)
                 verify == Verify(addr, get, post)
             IN  IF verify.outcome = "error"
                 THEN Ended(file, <<parse, verify>>, 1, "")
                 ELSE IF verify.outcome = "none"
                 THEN Ended(file, <<parse, verify>>, 1, "")
                 ELSE Ended(SetDefaultAddress(file, addr),
                            <<parse, verify, Step("set_default_address", "ok", <<addr>>)>>,
                            0, "")

\* Lines 156-183 of check: the schedule of addr is fetched with a new client
\* and shown.  An error that is no DTEKClientError is not caught and ends
\* the process with exit code 1.
ShowSchedule(file, events, addr, get, post) ==
    LET schedules == GetScheduleForAddress(NewClient, get, post, addr).result
    IN  IF schedules.kind = "error"
        THEN Ended(file,
                   Append(events, Step("get_schedule_for_address", "error", <<addr>>)),
                   1,
                   IF schedules.exc = "DTEKClientError" THEN "" ELSE schedules.exc)
        ELSE Ended(file,
                   Append(events, Step("get_schedule_for_address", "ok", <<addr>>)),
                   0, "")

\* check (lines 81-184).  address is the argument, None being <<>>;
\* confirm and address_input are the answers to the two prompts of the
\* first-time flow; get and post are what the server answers to the client
\* that verifies, get2 and post2 to the client that fetches the schedule.
Check(file, address, confirm, address_input, get, post, get2, post2) ==
    IF address # <<>> /\ address[1] # <<>>
    THEN LET from_str == FromString(address[1])
         IN  IF from_str.kind = "error"
             THEN Ended(file, <<Step("from_string", "error", <<>>)>>, 1, "")
             ELSE ShowSchedule(file, <<Step("from_string", "ok", <<from_str.value>>)>>,
                               from_str.value, get2, post2)
    ELSE LET default == GetDefaultAddress(file)
         IN  IF default # <<>>
             THEN ShowSchedule(file, <<>>, default[1], get2, post2)
             ELSE IF ~confirm
             THEN Ended(file, <<>>, 0, "")
             ELSE LET from_str == FromString(address_input)
                  IN  IF from_str.kind = "error"
                      THEN Ended(file, <<Step("from_string", "error", <<>>)>>, 1, "")
                      ELSE LET addr == from_str.value
                               parse == Step("from_string", "ok", <<addr>>)
                               verify == Verify(addr, get, post)
                           IN  IF verify.outcome = "error"
                               THEN Ended(file, <<parse, verify>>, 1, "")
                               ELSE IF verify.outcome = "none"
                               THEN Ended(file, <<parse, verify>>, 1, "")
                               ELSE ShowSchedule(
                                        SetDefaultAddress(file, addr),
                                        <<parse, verify,
                                          Step("set_default_address", "ok", <<addr>>)>>,
                                        addr, get2, post2)

\* The address strings typed: well formed with and without spaces, of
\* another city, with two
\* parts, with four, with another house, with empty parts.
CliAddresses ==
    {<<"a", ",", "a", ",", "a">>,
     <<"a", ",", " ", "a", ",", " ", "a">>,
     <<"b", ",", "a", ",", "a">>,
     <<"a", ",", "a">>,
     <<"a", ",", "a", ",", "a", ",", "a">>,
     <<"a", ",", "a", ",", "a", "a">>,
     <<",", ",">>}

\* What the server answers to a GET: a failure, a page with a schedule, one
\* whose data cannot be built, one that lists no day.
CliGetOutcomes ==
    {HttpError,
     Page(SchedulePage(<<"t1">>, EmptyDict,
                       <<<<<<"5">>, One("G1", ExampleGroupSchedule)>>>>)),
     Page(SchedulePage(<<"t1">>, EmptyDict, <<<<<<"x">>, EmptyDict>>>>)),
     Page(SchedulePage(<<>>, EmptyDict, <<>>))}

\* What it answers to a POST: a failure, no JSON, the group of house a,
\* the group of house aa, no result.
CliPostOutcomes ==
    {HttpError, NotJson, FoundIn(<<"a">>, <<"G1">>), FoundIn(<<"a", "a">>, <<"G2">>),
     Json(One("result", "false"))}

\* What the server answers to the GET of the client that verifies, which
\* does not read the page: a failure or a page.
VerifyGetOutcomes ==
    {HttpError,
     Page(SchedulePage(<<"t1">>, EmptyDict,
                       <<<<<<"5">>, One("G1", ExampleGroupSchedule)>>>>))}

\* The arguments of check: none, empty, well formed, malformed.
CheckArguments ==
    {<<>>, <<<<>>>>, <<<<"a", ",", "a", ",", "a">>>>, <<<<"a", ",", "a">>>>}

\* The record of a command that ended.
RunOf(command, ended) ==
    [command |-> command, config_before |-> config_file,
     events |-> ended.events, exit_code |-> ended.exit_code,
     uncaught |-> ended.uncaught]

\* outage-checker set-address ADDRESS
RunSetAddress ==
    \E address \in CliAddresses, get \in VerifyGetOutcomes, post \in CliPostOutcomes :
        LET ended == SetAddress(config_file, address, get, post)
        IN  /\ config_file' = ended.config
            /\ cli_run' = RunOf("set-address", ended)
            /\ UNCHANGED <<extractVars, parseVars, scheduleVars, sessionVars,
                           modelsVars>>

\* What is given to a run of check.
CheckInput(address, confirm, address_input, get, post, get2, post2) ==
    [address |-> address, confirm |-> confirm, address_input |-> address_input,
     get |-> get, post |-> post, get2 |-> get2, post2 |-> post2]

\* The runs of check: with an argument, where nothing is asked and nothing
\* verified; without one and with "no" to the first question; without one
\* and with "yes" and an address typed.
CheckInputs ==
    {CheckInput(address, FALSE, <<>>, HttpError, HttpError, get2, post2) :
        address \in CheckArguments, get2 \in CliGetOutcomes, post2 \in CliPostOutcomes}
    \cup
    {CheckInput(<<>>, TRUE, address_input, get, post, get2, post2) :
        address_input \in CliAddresses, get \in VerifyGetOutcomes,
        post \in CliPostOutcomes, get2 \in CliGetOutcomes,
        post2 \in {HttpError, FoundIn(<<"a">>, <<"G1">>), Json(One("result", "false"))}}

\* outage-checker check [ADDRESS]
RunCheck ==
    \E input \in CheckInputs :
        LET ended == Check(config_file, input.address, input.confirm,
                           input.address_input, input.get, input.post,
                           input.get2, input.post2)
        IN  /\ config_file' = ended.config
            /\ cli_run' = RunOf("check", ended)
            /\ UNCHANGED <<extractVars, parseVars, scheduleVars, sessionVars,
                           modelsVars>>

\* outage-checker clear-address (lines 232-236)
RunClearAddress ==
    /\ config_file' = ClearDefaultAddress(config_file)
    /\ cli_run' = RunOf("clear-address", Ended(ClearDefaultAddress(config_file), <<>>, 0, ""))
    /\ UNCHANGED <<extractVars, parseVars, scheduleVars, sessionVars, modelsVars>>

InitCli ==
    /\ CliIdle
    /\ ExtractIdle
    /\ ParseIdle
    /\ ScheduleIdle
    /\ SessionIdle
    /\ PeriodsIdle
    /\ AddressIdle

NextCli == RunSetAddress \/ RunCheck \/ RunClearAddress

SpecCli == InitCli /\ [][NextCli]_vars

\* The places of the steps of the last command that saved the address.
Saves ==
    {k \in 1..Len(cli_run.events) : cli_run.events[k].step = "set_default_address"}

\* The last command failed to read the address or to verify it: the string
\* was malformed, the client raised an error, or the address has no group.
VerificationFailed ==
    \E k \in 1..Len(cli_run.events) :
        /\ cli_run.events[k].step \in {"from_string", "fetch_address_group"}
        /\ cli_run.events[k].outcome \in {"error", "none"}

====
